---------------------------- MODULE Spec2Model ----------------------------
(***************************************************************************)
(* The client side of PS-RPC (src/client.go): the correlation table, the   *)
(* bus demultiplexer goroutine started by NewRPCClient, Close, one         *)
(* RequestSingle call (with selectServer) and one RequestMulti call (with  *)
(* its drainer goroutine), running against servers that put claim and      *)
(* response envelopes on the client's two bus subscriptions.               *)
(*                                                                         *)
(* Goroutines interleave at their channel operations, lock sections and    *)
(* bus publishes; the local computation between two such points is part of *)
(* the step that ends at the later one.  A Go select with several ready    *)
(* cases is a choice among the actions of its cases.                       *)
(***************************************************************************)
EXTENDS Integers, Sequences, FiniteSets, TLC

(***************************************************************************)
(* Bounds of the model.                                                    *)
(***************************************************************************)
\* c.channelSize: capacity of the bus subscriptions, of the claim sink and
\* of the two channels of a RequestMulti call.
ChannelSize == 1
\* Claim and response envelopes the servers send in one run.
MaxClaims == 2
MaxResponses == 2
\* Claim and response envelopes the servers send to one RequestSingle call
\* whose every exit is followed (CallSpec).
MaxCallClaims == 1
MaxCallResponses == 1
\* Claim and response envelopes the servers send while a RequestSingle call
\* and a RequestMulti call run side by side (MixedSpec).
MaxMixedClaims == 1
MaxMixedResponses == 1
\* Claim and response envelopes the servers send while a RequestSingle call
\* collects claims and a RequestMulti call collects responses (OrderSpec).
MaxOrderClaims == 2
MaxOrderResponses == 2
\* Claim envelopes the servers send in a run without responses (SelectSpec).
MaxSelectClaims == 3
\* Response envelopes the servers send in a run with RequestMulti alone.
MaxFanoutResponses == 3
\* The largest affinity a server claims with.
MaxAffinity == 2

\* make(chan *internal.Response, 1): the response sink of a unary call.
UnaryResCap == 1

\* Request ids: newRequestID() never returns the same id twice, so the
\* RequestSingle call and the RequestMulti call have different ids; StrayId
\* is an id no call of this client ever registered.
SingleId == "req-single"
MultiId == "req-multi"
StrayId == "req-stray"

CallIds == {SingleId, MultiId}
Servers == {"s1", "s2"}
Affinities == 0..MaxAffinity

(***************************************************************************)
(* Errors.  An error is a record of its code and its message.              *)
(***************************************************************************)
NewError(code, msg) == [code |-> code, msg |-> msg]

NilError == NewError("OK", "")

\* ErrRequestTimedOut with the code and text of ErrNoResponse.
ErrRequestTimedOutAsUnavailable ==
    NewError("Unavailable", "no response from servers")

ErrRequestTimedOut == NewError("DeadlineExceeded", "request timed out")

ErrNoResponse == NewError("Unavailable", "no response from servers")

\* NewErrorf(Unavailable, "no servers available (received %d responses)", claims)
ErrNoServers(claims) ==
    NewError("Unavailable",
             "no servers available (received " \o ToString(claims) \o " responses)")

\* The zero value of ResponseType (and the nil the multi hook is called with).
NoResult == "nil"

(***************************************************************************)
(* Envelopes.  A response carries either an error text (with its code) or  *)
(* an anypb payload; a payload is the packed bytes of a message, "pb:" in  *)
(* front of the message, or bytes that do not unmarshal.                   *)
(***************************************************************************)
ClaimRequest(id, server, affinity) ==
    [RequestId |-> id, ServerId |-> server, Affinity |-> affinity]

ResponseEnvelope(id, server, shape) ==
    [RequestId |-> id, ServerId |-> server, Code |-> shape.Code,
     Error |-> shape.Error, Response |-> shape.Response]

\* res.Response.UnmarshalNew(): the message of a well-formed payload, or an
\* error.
UnmarshalNew(payload) ==
    IF payload = "pb:reply"
    THEN [msg |-> "reply", err |-> NilError]
    ELSE [msg |-> NoResult, err |-> NewError("Unknown", "cannot unmarshal")]

\* The conversion of a response envelope into (result, error), the same in
\* RequestSingle and in the drainer of RequestMulti.
ConvertResponse(res) ==
    IF res.Error # ""
    THEN [Result |-> NoResult, Err |-> NewError(res.Code, res.Error)]
    ELSE LET u == UnmarshalNew(res.Response)
         IN IF u.err # NilError
            THEN [Result |-> NoResult,
                  Err |-> NewError("MalformedResponse", u.err.msg)]
            ELSE [Result |-> u.msg, Err |-> NilError]

(***************************************************************************)
(* The correlation table: the key sets of the two maps.  The channel a key *)
(* maps to is the channel of the call with that id.                        *)
(***************************************************************************)
\* Register without its insert: the sink is made but not entered.
RegisterSkipped(table, id) == table

Register(table, id) == table \cup {id}

\* Unregister without its delete: the deferred cleanup forgotten.
UnregisterForgotten(table, id) == table

Unregister(table, id) == table \ {id}

\* Lookup that finds a sink for every id: the `if ok` forgotten.
LookupAlwaysFound(table, id) == TRUE

Lookup(table, id) == id \in table

(***************************************************************************)
(* selectServer: whether a claim replaces the best candidate.              *)
(***************************************************************************)
\* IsCandidate with >= for >: an equal claim replaces the best candidate.
IsCandidateOnEqual(o, affinity, best) ==
    \/ o.MinimumAffinity > 0 /\ affinity >= o.MinimumAffinity /\ affinity >= best
    \/ o.MinimumAffinity <= 0 /\ affinity >= best /\ affinity > 0

\* IsCandidate without the affinity floor.
IsCandidateIgnoringFloor(o, affinity, best) == affinity > best

IsCandidate(o, affinity, best) ==
    \/ o.MinimumAffinity > 0 /\ affinity >= o.MinimumAffinity /\ affinity > best
    \/ o.MinimumAffinity <= 0 /\ affinity > best

\* SelectionResult with the two failures the wrong way round.
SelectionResultSwapped(serverID, best, claims) ==
    IF best = 0
    THEN IF claims = 0
         THEN [server |-> "", err |-> ErrNoServers(claims)]
         ELSE [server |-> "", err |-> ErrNoResponse]
    ELSE [server |-> serverID, err |-> NilError]

\* SelectionResult without the count: every failure is NoResponse.
SelectionResultNoCount(serverID, best, claims) ==
    IF best = 0
    THEN [server |-> "", err |-> ErrNoResponse]
    ELSE [server |-> serverID, err |-> NilError]

\* SelectionResult without its failures: whatever serverID holds is returned.
SelectionResultNeverFails(serverID, best, claims) ==
    [server |-> serverID, err |-> NilError]

\* What selectServer returns when its context is done.
SelectionResult(serverID, best, claims) ==
    IF best = 0
    THEN IF claims = 0
         THEN [server |-> "", err |-> ErrNoResponse]
         ELSE [server |-> "", err |-> ErrNoServers(claims)]
    ELSE [server |-> serverID, err |-> NilError]

(***************************************************************************)
(* State.                                                                  *)
(***************************************************************************)
VARIABLES
    opts,              \* o.selectionOpts of the RequestSingle call
    claimRequests,     \* keys of c.claimRequests
    responseChannels,  \* keys of c.responseChannels
    claimChan,         \* contents of the claim sink of the unary call
    resChan,           \* contents of the response sink of each call
    closed,            \* c.closed is closed
    subsOpen,          \* the subscriptions not yet closed
    demux,             \* the goroutine of NewRPCClient
    budget,            \* envelopes the servers will still send
    published,         \* ids whose request envelope was published
    claimResponses,    \* claim-response envelopes published
    ctx,               \* the contexts of the RequestSingle call
    single,            \* the RequestSingle call
    sel,               \* the locals of its selectServer
    singleHooks,       \* what the response hook was called with (unary)
    multi,             \* the RequestMulti call
    drainer,           \* its goroutine, with the envelopes it has taken
    responseChannel,   \* the stream returned by RequestMulti
    multiHooks         \* what the response hook was called with (multi)

tableVars == <<claimRequests, responseChannels>>
chanVars == <<claimChan, resChan>>
closeVars == <<closed>>
busVars == <<subsOpen, budget>>
pubVars == <<published, claimResponses>>
singleVars == <<ctx, single, sel, singleHooks>>
multiVars == <<multi, drainer, responseChannel, multiHooks>>

vars == <<opts, claimRequests, responseChannels, claimChan, resChan, closed,
          subsOpen, demux,
          budget, published, claimResponses, ctx, single, sel, singleHooks,
          multi, drainer, responseChannel, multiHooks>>

\* The selection options a call can be made with: each timeout is set or
\* not, the affinity floor is absent or MaxAffinity.
SelectionOpts ==
    [AffinityTimeout : {0, 1}, ShortCircuitTimeout : {0, 1},
     MinimumAffinity : {0, MaxAffinity}, AcceptFirstAvailable : BOOLEAN]

\* No option given: getRequestOpts leaves the zero values.
DefaultOpts ==
    [AffinityTimeout |-> 0, ShortCircuitTimeout |-> 0, MinimumAffinity |-> 0,
     AcceptFirstAvailable |-> FALSE]

\* The locals of selectServer before its loop, with two records kept for
\* the properties: the claims consumed, and, once a timer has called cancel,
\* how many of the claims the demultiplexer had received by then are not
\* consumed yet.
SelInit ==
    [serverID |-> "", best |-> 0, shorted |-> FALSE, claims |-> 0,
     affTimer |-> "unset", scTimer |-> "unset", consumed |-> <<>>,
     early |-> 0]

\* The state after NewRPCClient, before any call, for a call made with
\* options o and servers that will send the envelopes b counts.
InitWith(o, b) ==
    /\ opts = o
    /\ budget = b
    /\ claimRequests = {}
    /\ responseChannels = {}
    /\ claimChan = <<>>
    /\ resChan = [i \in CallIds |-> <<>>]
    /\ closed = FALSE
    /\ subsOpen = {"claims", "responses"}
    /\ demux = [pc |-> "select", held |-> <<>>]
    /\ published = {}
    /\ claimResponses = <<>>
    /\ ctx = "live"
    /\ single = [pc |-> "idle", serverID |-> "", response |-> NoResult,
                 err |-> NilError]
    /\ sel = SelInit
    /\ singleHooks = <<>>
    /\ multi = [pc |-> "idle", err |-> NilError]
    /\ drainer = [pc |-> "none", timer |-> "unset", r |-> <<>>, taken |-> <<>>]
    /\ responseChannel = [buf |-> <<>>, closed |-> FALSE]
    /\ multiHooks = <<>>

Init ==
    \E o \in SelectionOpts :
        InitWith(o, [claims |-> MaxClaims, responses |-> MaxResponses])

(***************************************************************************)
(* RequestSingle.                                                          *)
(***************************************************************************)
\* The hooks deferred as a call, `defer hook(ctx, request, info, response,
\* err)`: the arguments are those of the time of the defer, the zero values.
RunResponseHooksEarlyArgs(log, response, err) ==
    Append(log, [Result |-> NoResult, Err |-> NilError])

\* The deferred response hooks: each hook is called with the named results.
RunResponseHooks(log, response, err) ==
    Append(log, [Result |-> response, Err |-> err])

\* Lines 124-147: the request is encoded; on failure only the response
\* hooks are deferred and the call returns, otherwise both sinks are made
\* and registered under the lock.
SingleStart(encodes) ==
    /\ single.pc = "idle"
    /\ IF encodes
       THEN /\ claimRequests' = Register(claimRequests, SingleId)
            /\ responseChannels' = Register(responseChannels, SingleId)
            /\ single' = [single EXCEPT !.pc = "registered"]
            /\ UNCHANGED singleHooks
       ELSE /\ single' = [single EXCEPT
                              !.pc = "done",
                              !.err = NewError("MalformedRequest", "cannot marshal")]
            /\ singleHooks' = RunResponseHooks(singleHooks, single.response,
                                              single'.err)
            /\ UNCHANGED tableVars
    /\ UNCHANGED <<opts, chanVars, closeVars, busVars, demux, pubVars, ctx, sel,
                   multiVars>>

\* Lines 156-164 and 198-208: the request is published; on failure the call
\* goes to its deferred functions, otherwise the deadline is set and
\* selectServer starts, arming the affinity timer when one is configured.
SinglePublish(ok) ==
    /\ single.pc = "registered"
    /\ IF ok
       THEN /\ published' = published \cup {SingleId}
            /\ single' = [single EXCEPT !.pc = "select"]
            /\ sel' = [SelInit EXCEPT
                           !.affTimer = IF opts.AffinityTimeout > 0
                                        THEN "armed" ELSE "unset"]
       ELSE /\ single' = [single EXCEPT !.pc = "deferred",
                                        !.err = NewError("Internal", "publish")]
            /\ UNCHANGED <<published, sel>>
    /\ UNCHANGED <<opts, tableVars, chanVars, closeVars, busVars, demux,
                   claimResponses, ctx, singleHooks, multiVars>>

\* The context selectServer selects on is done: the caller's context or the
\* call deadline (outer), or cancel called by one of the two timers (inner).
OuterDone == ctx # "live"

InnerDone == OuterDone \/ sel.affTimer = "fired" \/ sel.scTimer = "fired"

\* Lines 222-237: a claim is taken from the claim sink.
SelectClaim ==
    /\ single.pc = "select"
    /\ claimChan # <<>>
    /\ LET claim == Head(claimChan)
           counted == [sel EXCEPT !.claims = @ + 1,
                                  !.consumed = Append(@, claim),
                                  !.early = IF @ > 0 THEN @ - 1 ELSE 0]
       IN /\ claimChan' = Tail(claimChan)
          /\ IF IsCandidate(opts, claim.Affinity, sel.best)
             THEN IF opts.AcceptFirstAvailable
                  THEN /\ sel' = [counted EXCEPT !.early = 0]
                       /\ single' = [single EXCEPT
                                          !.pc = "elected",
                                          !.serverID = claim.ServerId]
                  ELSE /\ sel' = [counted EXCEPT
                                      !.serverID = claim.ServerId,
                                      !.best = claim.Affinity,
                                      !.shorted =
                                          @ \/ opts.ShortCircuitTimeout > 0,
                                      !.scTimer =
                                          IF opts.ShortCircuitTimeout > 0
                                             /\ ~sel.shorted
                                          THEN "armed" ELSE @]
                       /\ UNCHANGED single
             ELSE /\ sel' = counted
                  /\ UNCHANGED single
    /\ UNCHANGED <<opts, tableVars, resChan, closeVars, busVars, demux,
                   pubVars, ctx, singleHooks, multiVars>>

\* Lines 212-220: the selection context is done.  The loop is left, and the
\* count of early claims with it.
SelectDone ==
    /\ single.pc = "select"
    /\ InnerDone
    /\ LET r == SelectionResult(sel.serverID, sel.best, sel.claims)
       IN IF r.err # NilError
          THEN single' = [single EXCEPT !.pc = "deferred", !.err = r.err]
          ELSE single' = [single EXCEPT !.pc = "elected",
                                        !.serverID = r.server]
    /\ sel' = [sel EXCEPT !.early = 0]
    /\ UNCHANGED <<opts, tableVars, chanVars, closeVars, busVars, demux,
                   pubVars, ctx, singleHooks, multiVars>>

\* The claims for the unary call the demultiplexer has received and
\* selectServer has not consumed: in the claim sink, or being sent.
ClaimsPending ==
    Len(claimChan) + (IF demux.pc = "sendClaim" THEN 1 ELSE 0)

\* Neither timer of selectServer has called cancel.
NoInnerCancel == sel.affTimer # "fired" /\ sel.scTimer # "fired"

\* time.AfterFunc(opts.AffinityTimeout, cancel) runs cancel.  Once
\* selectServer has returned its context is cancelled already and the timer
\* changes nothing.
AffinityTimerFires ==
    /\ single.pc = "select"
    /\ sel.affTimer = "armed"
    /\ sel' = [sel EXCEPT !.affTimer = "fired",
                          !.early = IF NoInnerCancel THEN ClaimsPending ELSE @]
    /\ UNCHANGED <<opts, tableVars, chanVars, closeVars, busVars, demux,
                   pubVars, ctx, single, singleHooks, multiVars>>

\* time.AfterFunc(opts.ShortCircuitTimeout, cancel) runs cancel.
ShortCircuitTimerFires ==
    /\ single.pc = "select"
    /\ sel.scTimer = "armed"
    /\ sel' = [sel EXCEPT !.scTimer = "fired",
                          !.early = IF NoInnerCancel THEN ClaimsPending ELSE @]
    /\ UNCHANGED <<opts, tableVars, chanVars, closeVars, busVars, demux,
                   pubVars, ctx, single, singleHooks, multiVars>>

\* The caller cancels the context it passed to RequestSingle.
CallerCancels ==
    /\ single.pc \in {"registered", "select", "elected", "await"}
    /\ ctx = "live"
    /\ ctx' = "canceled"
    /\ UNCHANGED <<opts, tableVars, chanVars, closeVars, busVars, demux,
                   pubVars, single, sel, singleHooks, multiVars>>

\* The deadline of context.WithTimeout(ctx, o.timeout), line 161, passes.
DeadlineElapses ==
    /\ single.pc \in {"select", "elected", "await"}
    /\ ctx = "live"
    /\ ctx' = "deadline"
    /\ UNCHANGED <<opts, tableVars, chanVars, closeVars, busVars, demux,
                   pubVars, single, sel, singleHooks, multiVars>>

\* Lines 168-174: the claim-response naming the chosen server is published.
\* selectServer has returned: its locals are gone.
SingleClaimResponse(ok) ==
    /\ single.pc = "elected"
    /\ IF ok
       THEN /\ claimResponses' =
                   Append(claimResponses,
                          [RequestId |-> SingleId, ServerId |-> single.serverID])
            /\ single' = [single EXCEPT !.pc = "await"]
       ELSE /\ single' = [single EXCEPT !.pc = "deferred",
                                        !.err = NewError("Internal", "publish")]
            /\ UNCHANGED claimResponses
    /\ sel' = SelInit
    /\ UNCHANGED <<opts, tableVars, chanVars, closeVars, busVars, demux,
                   published, ctx, singleHooks, multiVars>>

\* Lines 177-188: a response is taken from the response sink.
AwaitResponse ==
    /\ single.pc = "await"
    /\ resChan[SingleId] # <<>>
    /\ LET r == ConvertResponse(Head(resChan[SingleId]))
       IN single' = [single EXCEPT !.pc = "deferred",
                                   !.response = r.Result,
                                   !.err = r.Err]
    /\ resChan' = [resChan EXCEPT ![SingleId] = Tail(@)]
    /\ UNCHANGED <<opts, tableVars, claimChan, closeVars, busVars, demux,
                   pubVars, ctx, sel, singleHooks, multiVars>>

\* Lines 190-191: the call's context is done.
AwaitDone ==
    /\ single.pc = "await"
    /\ OuterDone
    /\ single' = [single EXCEPT !.pc = "deferred", !.err = ErrRequestTimedOut]
    /\ UNCHANGED <<opts, tableVars, chanVars, closeVars, busVars, demux,
                   pubVars, ctx, sel, singleHooks, multiVars>>

\* Lines 149-154 and 113-117, in the order deferred functions run: the call
\* unregisters both sinks under the lock, then calls the response hooks
\* with the results it returns.  The locals of selectServer, if it was the
\* one to fail, are gone.
SingleReturn ==
    /\ single.pc = "deferred"
    /\ claimRequests' = Unregister(claimRequests, SingleId)
    /\ responseChannels' = Unregister(responseChannels, SingleId)
    /\ singleHooks' = RunResponseHooks(singleHooks, single.response, single.err)
    /\ single' = [single EXCEPT !.pc = "done"]
    /\ sel' = SelInit
    /\ UNCHANGED <<opts, chanVars, closeVars, busVars, demux, pubVars, ctx,
                   multiVars>>

(***************************************************************************)
(* RequestMulti.                                                           *)
(***************************************************************************)
\* The deferred hooks of RequestMulti without `if err != nil`.
RunFailureHooksAlways(log, err) ==
    Append(log, [Result |-> NoResult, Err |-> err])

\* Lines 263-269: the deferred hooks of RequestMulti run only on an error,
\* with a nil result.
RunFailureHooks(log, err) ==
    IF err # NilError THEN Append(log, [Result |-> NoResult, Err |-> err])
    ELSE log

\* Lines 276-331: the request is encoded; on failure the call returns the
\* error.  Otherwise the response sink is made and registered, the stream
\* is made and the drainer is started.
MultiStart(encodes) ==
    /\ multi.pc = "idle"
    /\ IF encodes
       THEN /\ responseChannels' = Register(responseChannels, MultiId)
            /\ multi' = [multi EXCEPT !.pc = "spawned"]
            /\ drainer' = [drainer EXCEPT !.pc = "loop", !.timer = "running"]
            /\ UNCHANGED multiHooks
       ELSE /\ multi' = [multi EXCEPT
                             !.pc = "failed",
                             !.err = NewError("MalformedRequest", "cannot marshal")]
            /\ multiHooks' = RunFailureHooks(multiHooks, multi'.err)
            /\ UNCHANGED <<responseChannels, drainer>>
    /\ UNCHANGED <<opts, claimRequests, chanVars, closeVars, busVars, demux,
                   pubVars, singleVars, responseChannel>>

\* Lines 333-338: the request is published and the stream is returned, or
\* the publish fails and the call returns the error and no stream.
MultiPublish(ok) ==
    /\ multi.pc = "spawned"
    /\ IF ok
       THEN /\ published' = published \cup {MultiId}
            /\ multi' = [multi EXCEPT !.pc = "returned"]
       ELSE /\ multi' = [multi EXCEPT !.pc = "failed",
                                      !.err = NewError("Internal", "publish")]
            /\ UNCHANGED published
    /\ multiHooks' = RunFailureHooks(multiHooks, multi'.err)
    /\ UNCHANGED <<opts, tableVars, chanVars, closeVars, busVars, demux,
                   claimResponses, singleVars, drainer, responseChannel>>

\* Lines 304-320: the drainer takes a response from the response sink,
\* converts it and calls the response hooks with it.
DrainerTakes ==
    /\ drainer.pc = "loop"
    /\ resChan[MultiId] # <<>>
    /\ LET r == ConvertResponse(Head(resChan[MultiId]))
       IN /\ multiHooks' = RunResponseHooks(multiHooks, r.Result, r.Err)
          /\ drainer' = [drainer EXCEPT
                             !.pc = "send", !.r = <<r>>,
                             !.taken = Append(@, Head(resChan[MultiId]))]
    /\ resChan' = [resChan EXCEPT ![MultiId] = Tail(@)]
    /\ UNCHANGED <<opts, tableVars, claimChan, closeVars, busVars, demux,
                   pubVars, singleVars, multi, responseChannel>>

\* Line 321: responseChannel <- r, which waits for room in the stream.
DrainerForwards ==
    /\ drainer.pc = "send"
    /\ Len(responseChannel.buf) < ChannelSize
    /\ responseChannel' = [responseChannel EXCEPT !.buf = Append(@, drainer.r[1])]
    /\ drainer' = [drainer EXCEPT !.pc = "loop", !.r = <<>>]
    /\ UNCHANGED <<opts, tableVars, chanVars, closeVars, busVars, demux,
                   pubVars, singleVars, multi, multiHooks>>

\* The timer of line 301 fires after o.timeout.
MultiTimerFires ==
    /\ drainer.timer = "running"
    /\ drainer' = [drainer EXCEPT !.timer = "fired"]
    /\ UNCHANGED <<opts, tableVars, chanVars, closeVars, busVars, demux,
                   pubVars, singleVars, multi, responseChannel, multiHooks>>

\* Lines 323-328: the drainer receives from timer.C, unregisters the
\* response sink, closes the stream and returns.
DrainerTimesOut ==
    /\ drainer.pc = "loop"
    /\ drainer.timer = "fired"
    /\ responseChannels' = Unregister(responseChannels, MultiId)
    /\ responseChannel' = [responseChannel EXCEPT !.closed = TRUE]
    /\ drainer' = [drainer EXCEPT !.pc = "exited", !.timer = "received"]
    /\ UNCHANGED <<opts, claimRequests, chanVars, closeVars, busVars, demux,
                   pubVars, singleVars, multi, multiHooks>>

\* The caller receives from the stream RequestMulti returned.
CallerReceives ==
    /\ multi.pc = "returned"
    /\ responseChannel.buf # <<>>
    /\ responseChannel' = [responseChannel EXCEPT !.buf = Tail(@)]
    /\ UNCHANGED <<opts, tableVars, chanVars, closeVars, busVars, demux,
                   pubVars, singleVars, multi, drainer, multiHooks>>

(***************************************************************************)
(* The servers and the bus.  A server sends a claim or a response for a    *)
(* request that was published, or for an id this client never registered;  *)
(* what a subscription's channel yields next, and when, is the servers'    *)
(* and the bus's choice.                                                   *)
(***************************************************************************)
Answerable == published \cup {StrayId}

\* A response of each shape; the two servers differ in what they send.
ServerShapes ==
    {<<"s1", [Code |-> "OK", Error |-> "", Response |-> "pb:reply"]>>,
     <<"s2", [Code |-> "OK", Error |-> "", Response |-> "pb:reply"]>>,
     <<"s1", [Code |-> "NotFound", Error |-> "not found", Response |-> ""]>>,
     <<"s2", [Code |-> "OK", Error |-> "", Response |-> "garbled"]>>}

\* The claims a server can send for the unary request: any server with any
\* affinity.
ClaimEnvelopes ==
    {ClaimRequest(SingleId, s, a) : s \in Servers, a \in Affinities}

\* The responses a server can send for a call's request.
ResponseEnvelopes ==
    {ResponseEnvelope(id, x[1], x[2]) : id \in CallIds, x \in ServerShapes}

\* Envelopes for an id without a sink: the content makes no difference.
StrayClaims == {ClaimRequest(id, "s1", 1) : id \in {MultiId, StrayId}}

StrayResponses ==
    {ResponseEnvelope(StrayId, "s1",
                      [Code |-> "OK", Error |-> "", Response |-> "pb:reply"])}

(***************************************************************************)
(* The demultiplexer, lines 47-72.                                         *)
(***************************************************************************)
\* The capacity of the response sink of a call.
SinkCap(id) == IF id = SingleId THEN UnaryResCap ELSE ChannelSize

\* DemuxTakesClaim with the send handed to a goroutine of its own,
\* `go func() { claimChan <- claim }()`: the demultiplexer takes the next
\* claim while an earlier one still waits for room, and the later send can
\* complete first.
DemuxTakesClaimAsync(claim) ==
    /\ demux.pc \in {"select", "sendClaim"}
    /\ "claims" \in subsOpen
    /\ claim.RequestId \in Answerable
    /\ budget.claims > 0
    /\ budget' = [budget EXCEPT !.claims = @ - 1]
    /\ IF claim.RequestId \in claimRequests
       THEN IF demux.pc = "sendClaim"
            THEN /\ Len(claimChan) < ChannelSize
                 /\ claimChan' = Append(claimChan, claim)
                 /\ UNCHANGED demux
            ELSE /\ demux' = [pc |-> "sendClaim", held |-> <<claim>>]
                 /\ UNCHANGED claimChan
       ELSE UNCHANGED <<demux, claimChan>>
    /\ UNCHANGED <<opts, tableVars, resChan, closeVars, subsOpen, pubVars,
                   singleVars, multiVars>>

\* Lines 55-59: a claim is received from the subscription and its sink is
\* looked up under the read lock; without a sink the claim is dropped.
DemuxTakesClaim(claim) ==
    /\ demux.pc = "select"
    /\ "claims" \in subsOpen
    /\ claim.RequestId \in Answerable
    /\ budget.claims > 0
    /\ budget' = [budget EXCEPT !.claims = @ - 1]
    /\ demux' = IF Lookup(claimRequests, claim.RequestId)
                THEN [pc |-> "sendClaim", held |-> <<claim>>]
                ELSE demux
    /\ UNCHANGED <<opts, tableVars, chanVars, closeVars, subsOpen, pubVars,
                   singleVars, multiVars>>

\* Line 60: claimChan <- claim, which waits for room in the claim sink.
DemuxDeliversClaim ==
    /\ demux.pc = "sendClaim"
    /\ Len(claimChan) < ChannelSize
    /\ claimChan' = Append(claimChan, demux.held[1])
    /\ demux' = [pc |-> "select", held |-> <<>>]
    /\ UNCHANGED <<opts, tableVars, resChan, closeVars, busVars, pubVars,
                   singleVars, multiVars>>

\* Lines 63-67: the same for a response.
DemuxTakesResponse(res) ==
    /\ demux.pc = "select"
    /\ "responses" \in subsOpen
    /\ res.RequestId \in Answerable
    /\ budget.responses > 0
    /\ budget' = [budget EXCEPT !.responses = @ - 1]
    /\ demux' = IF Lookup(responseChannels, res.RequestId)
                THEN [pc |-> "sendRes", held |-> <<res>>]
                ELSE demux
    /\ UNCHANGED <<opts, tableVars, chanVars, closeVars, subsOpen, pubVars,
                   singleVars, multiVars>>

\* Line 68: resChan <- res, which waits for room in the response sink.
DemuxDeliversResponse ==
    /\ demux.pc = "sendRes"
    /\ LET id == demux.held[1].RequestId
       IN /\ Len(resChan[id]) < SinkCap(id)
          /\ resChan' = [resChan EXCEPT ![id] = Append(@, demux.held[1])]
    /\ demux' = [pc |-> "select", held |-> <<>>]
    /\ UNCHANGED <<opts, tableVars, claimChan, closeVars, busVars, pubVars,
                   singleVars, multiVars>>

\* Lines 50-53: c.closed is closed; both subscriptions are closed and the
\* goroutine returns.
DemuxExits ==
    /\ demux.pc = "select"
    /\ closed
    /\ subsOpen' = {}
    /\ demux' = [pc |-> "exited", held |-> <<>>]
    /\ UNCHANGED <<opts, tableVars, chanVars, closeVars, budget, pubVars,
                   singleVars, multiVars>>

(***************************************************************************)
(* Close, lines 89-95: one call, taken as a whole; calls come one after    *)
(* the other.                                                              *)
(***************************************************************************)
\* What a Close call does to c.closed: nothing when it is closed already.
CloseSignal(isClosed) == IF isClosed THEN isClosed ELSE TRUE

Close ==
    /\ closed' = CloseSignal(closed)
    /\ UNCHANGED <<opts, tableVars, chanVars, busVars, demux, pubVars,
                   singleVars, multiVars>>

(***************************************************************************)
(* Specifications.                                                         *)
(***************************************************************************)
\* The steps of the RequestSingle call, its timers and its caller.
SingleNext ==
    \/ \E encodes \in BOOLEAN : SingleStart(encodes)
    \/ \E ok \in BOOLEAN : SinglePublish(ok)
    \/ SelectClaim
    \/ SelectDone
    \/ AffinityTimerFires
    \/ ShortCircuitTimerFires
    \/ CallerCancels
    \/ DeadlineElapses
    \/ \E ok \in BOOLEAN : SingleClaimResponse(ok)
    \/ AwaitResponse
    \/ AwaitDone
    \/ SingleReturn

\* The steps of the RequestMulti call, its drainer, its timer and its caller.
MultiNext ==
    \/ \E encodes \in BOOLEAN : MultiStart(encodes)
    \/ \E ok \in BOOLEAN : MultiPublish(ok)
    \/ DrainerTakes
    \/ DrainerForwards
    \/ MultiTimerFires
    \/ DrainerTimesOut
    \/ CallerReceives

\* The demultiplexer's handling of claims and of responses.
ClaimsNext ==
    \/ \E claim \in ClaimEnvelopes : DemuxTakesClaim(claim)
    \/ DemuxDeliversClaim

ResponsesNext ==
    \/ \E res \in ResponseEnvelopes : DemuxTakesResponse(res)
    \/ DemuxDeliversResponse

\* Envelopes nobody waits for.
StrayNext ==
    \/ \E claim \in StrayClaims : DemuxTakesClaim(claim)
    \/ \E res \in StrayResponses : DemuxTakesResponse(res)

ShutdownNext == Close \/ DemuxExits

Next ==
    \/ SingleNext
    \/ MultiNext
    \/ ClaimsNext
    \/ ResponsesNext
    \/ StrayNext
    \/ ShutdownNext

Spec == Init /\ [][Next]_vars

\* A client on which only RequestSingle is called.
UnaryNext == SingleNext \/ ClaimsNext \/ ResponsesNext \/ ShutdownNext

UnarySpec == Init /\ [][UnaryNext]_vars

\* One RequestSingle call, from its start to its return, with the servers'
\* answers to it and Close.
CallInit ==
    \E o \in SelectionOpts :
        InitWith(o, [claims |-> MaxCallClaims, responses |-> MaxCallResponses])

CallSpec == CallInit /\ [][UnaryNext]_vars

\* A RequestSingle call no server responds to, on a client nobody closes.
SelectInit ==
    \E o \in SelectionOpts :
        InitWith(o, [claims |-> MaxSelectClaims, responses |-> 0])

SelectNext ==
    \/ \E encodes \in BOOLEAN : SingleStart(encodes)
    \/ \E ok \in BOOLEAN : SinglePublish(ok)
    \/ SelectClaim
    \/ SelectDone
    \/ AffinityTimerFires
    \/ ShortCircuitTimerFires
    \/ CallerCancels
    \/ DeadlineElapses
    \/ \E ok \in BOOLEAN : SingleClaimResponse(ok)
    \/ AwaitDone
    \/ SingleReturn
    \/ ClaimsNext

SelectSpec == SelectInit /\ [][SelectNext]_vars

\* A client on which only RequestMulti is called.
FanoutInit ==
    InitWith(DefaultOpts, [claims |-> 1, responses |-> MaxFanoutResponses])

FanoutNext == MultiNext \/ ResponsesNext \/ StrayNext \/ ShutdownNext

FanoutSpec == FanoutInit /\ [][FanoutNext]_vars

\* A client on which a RequestSingle call and a RequestMulti call run side
\* by side, the unary call without an affinity floor and with both
\* selection timeouts or neither.
MixedOpts ==
    {o \in SelectionOpts :
         o.MinimumAffinity = 0 /\ o.AffinityTimeout = o.ShortCircuitTimeout}

MixedInit ==
    \E o \in MixedOpts :
        InitWith(o, [claims |-> MaxMixedClaims, responses |-> MaxMixedResponses])

MixedSpec == MixedInit /\ [][Next]_vars

\* The happy path of a unary call: the request encodes, both publishes
\* succeed, nobody cancels or closes, exactly one server claims, with an
\* affinity that qualifies, and responds with a well-formed reply once a
\* claim-response names it.  The servers, the bus and the goroutines are
\* fast and the timeouts are long: a timer fires or the deadline passes
\* only when nothing else can take a step, and the selection timeouts are
\* shorter than the call timeout.
HappyInit ==
    \E o \in SelectionOpts : InitWith(o, [claims |-> 1, responses |-> 1])

\* A step that does not wait for time to pass is possible.
HappyBusy ==
    \/ single.pc \in {"idle", "registered", "elected", "deferred"}
    \/ single.pc = "select" /\ (claimChan # <<>> \/ InnerDone)
    \/ single.pc = "await" /\ (resChan[SingleId] # <<>> \/ OuterDone)
    \/ demux.pc # "select"
    \/ SingleId \in published /\ budget.claims > 0
    \/ claimResponses # <<>> /\ budget.responses > 0

HappyClaims ==
    {claim \in ClaimEnvelopes :
         /\ claim.Affinity > 0
         /\ claim.Affinity >= opts.MinimumAffinity}

HappyResponses ==
    {ResponseEnvelope(SingleId, claimResponses[i].ServerId,
                      [Code |-> "OK", Error |-> "", Response |-> "pb:reply"]) :
         i \in 1..Len(claimResponses)}

HappyNext ==
    \/ SingleStart(TRUE)
    \/ SinglePublish(TRUE)
    \/ SelectClaim
    \/ SelectDone
    \/ ~HappyBusy /\ AffinityTimerFires
    \/ ~HappyBusy /\ ShortCircuitTimerFires
    \/ ~HappyBusy /\ sel.affTimer # "armed" /\ sel.scTimer # "armed"
           /\ DeadlineElapses
    \/ SingleClaimResponse(TRUE)
    \/ AwaitResponse
    \/ AwaitDone
    \/ SingleReturn
    \/ \E claim \in HappyClaims : DemuxTakesClaim(claim)
    \/ DemuxDeliversClaim
    \/ \E res \in HappyResponses : DemuxTakesResponse(res)
    \/ DemuxDeliversResponse

HappySpec == HappyInit /\ [][HappyNext]_vars

\* A RequestSingle call collecting claims and a RequestMulti call collecting
\* responses on the same client, with envelopes for an id without a sink in
\* between.
OrderInit ==
    InitWith(DefaultOpts,
             [claims |-> MaxOrderClaims, responses |-> MaxOrderResponses])

MultiResponses == {res \in ResponseEnvelopes : res.RequestId = MultiId}

\* No selection timeout is configured: neither timer is armed.
OrderNext ==
    \/ \E encodes \in BOOLEAN : SingleStart(encodes)
    \/ \E ok \in BOOLEAN : SinglePublish(ok)
    \/ SelectClaim
    \/ SelectDone
    \/ CallerCancels
    \/ DeadlineElapses
    \/ \E ok \in BOOLEAN : SingleClaimResponse(ok)
    \/ AwaitDone
    \/ SingleReturn
    \/ ClaimsNext
    \/ MultiNext
    \/ StrayNext
    \/ \E res \in MultiResponses : DemuxTakesResponse(res)
    \/ DemuxDeliversResponse

OrderSpec == OrderInit /\ [][OrderNext]_vars

\* The same under fair scheduling of the goroutines: the demultiplexer and
\* the drainer take a step they can take, and a select whose case stays or
\* keeps becoming ready takes it in the end.  No assumption on the servers,
\* on the callers of Close, on the timer, or on the caller of RequestMulti
\* (when it publishes aside), which reads the stream when it wants to.
FanoutFairness ==
    /\ WF_vars(DemuxDeliversResponse)
    /\ SF_vars(DemuxExits)
    /\ WF_vars(DrainerTakes)
    /\ WF_vars(DrainerForwards)
    /\ SF_vars(DrainerTimesOut)
    /\ WF_vars(\E ok \in BOOLEAN : MultiPublish(ok))

FairFanoutSpec == FanoutSpec /\ FanoutFairness

(***************************************************************************)
(* Properties.                                                             *)
(***************************************************************************)
\* The demultiplexer is at one of its two sends.
DemuxDelivering == demux.pc \in {"sendClaim", "sendRes"}

\* The sink the demultiplexer sends into is full.
HeldSinkFull ==
    \/ demux.pc = "sendClaim" /\ Len(claimChan) >= ChannelSize
    \/ /\ demux.pc = "sendRes"
       /\ Len(resChan[demux.held[1].RequestId])
              >= SinkCap(demux.held[1].RequestId)

\* The only receiver of the sink the demultiplexer sends into will not
\* receive from it again: selectServer has returned (claim sink), the unary
\* call has left its last select (response sink), the drainer has returned.
HeldSinkAbandoned ==
    \/ demux.pc = "sendClaim"
          /\ single.pc \in {"elected", "await", "deferred", "done"}
    \/ /\ demux.pc = "sendRes"
       /\ \/ demux.held[1].RequestId = SingleId
                /\ single.pc \in {"deferred", "done"}
          \/ demux.held[1].RequestId = MultiId /\ drainer.pc = "exited"

\* C1: the demultiplexer never blocks indefinitely delivering into a sink.
\* A send into a full sink completes only after a receive from that sink,
\* so the property requires that the demultiplexer is never at a send into
\* a full sink whose receiver has stopped receiving.
C1_DeliveryNeverStuck == ~(DemuxDelivering /\ HeldSinkFull /\ HeldSinkAbandoned)

\* C2: once a RequestSingle call has returned, on whichever path, the
\* correlation table holds neither a claim sink nor a response sink for its
\* request-id.
C2_NoEntryAfterReturn ==
    single.pc = "done" =>
        /\ ~Lookup(claimRequests, SingleId)
        /\ ~Lookup(responseChannels, SingleId)

\* A call that registered its sinks, was answered and returned the response,
\* while the demultiplexer holds a later envelope it found a sink for.
C2_Witness ==
    /\ single.pc = "done"
    /\ single.err = NilError
    /\ SingleId \in published
    /\ DemuxDelivering

\* The claims of a sequence that can be chosen under the options o: with an
\* affinity above 0 and, when a floor is set, not under the floor.
Qualifying(o, claims) ==
    {i \in 1..Len(claims) :
         /\ claims[i].Affinity > 0
         /\ o.MinimumAffinity > 0 => claims[i].Affinity >= o.MinimumAffinity}

\* The earliest of the qualifying claims with the largest affinity.
EarliestBest(o, claims) ==
    CHOOSE i \in Qualifying(o, claims) :
        \A j \in Qualifying(o, claims) :
            \/ claims[j].Affinity < claims[i].Affinity
            \/ claims[j].Affinity = claims[i].Affinity /\ i <= j

\* C3: without accept-first-available, the server selectServer returns is
\* the sender of the qualifying claim of maximum affinity among the claims
\* it consumed, the earliest one when several share the maximum.
C3_SelectsEarliestBest ==
    (single.pc = "elected" /\ ~opts.AcceptFirstAvailable) =>
        /\ Qualifying(opts, sel.consumed) # {}
        /\ single.serverID =
               sel.consumed[EarliestBest(opts, sel.consumed)].ServerId

\* selectServer returned the earlier of two servers that claimed with the
\* same, maximum, affinity, after a claim that did not qualify.
C3_Witness ==
    /\ single.pc = "elected"
    /\ ~opts.AcceptFirstAvailable
    /\ Len(sel.consumed) = 3
    /\ ~(1 \in Qualifying(opts, sel.consumed))
    /\ sel.consumed[2].Affinity = sel.consumed[3].Affinity
    /\ sel.consumed[2].ServerId # sel.consumed[3].ServerId
    /\ single.serverID = sel.consumed[2].ServerId

\* C4: a RequestSingle call invokes the response hooks exactly once, when
\* it returns and not before, with the result and the error it returns.
C4_HooksOnceWithOutcome ==
    IF single.pc = "done"
    THEN singleHooks = <<[Result |-> single.response, Err |-> single.err]>>
    ELSE singleHooks = <<>>

\* A call that returned a decode failure, seen by the hook.
C4_Witness ==
    /\ single.pc = "done"
    /\ single.err.code = "MalformedResponse"
    /\ Len(singleHooks) = 1
    /\ singleHooks[1].Err.code = "MalformedResponse"

\* RequestMulti has handed a stream to its caller and the stream is open.
StreamOpenToCaller == multi.pc = "returned" /\ ~responseChannel.closed

\* C5: once RequestMulti has returned, with a stream or with an error, the
\* response sink of its request-id is in the correlation table exactly
\* while a stream handed to the caller is open.
C5_EntryIffStreamOpen ==
    multi.pc \in {"returned", "failed"} =>
        (Lookup(responseChannels, MultiId) <=> StreamOpenToCaller)

\* C6: once the timer of a RequestMulti call has fired, the drainer
\* eventually unregisters the request-id and closes the stream.
C6_TimeoutClosesStream ==
    (drainer.timer = "fired")
        ~> (responseChannel.closed /\ ~Lookup(responseChannels, MultiId))

\* A hook call made by the deferred function of RequestMulti.
IsFailureHook(h) == h.Err.code \in {"MalformedRequest", "Internal"}

IsResponseHook(h) == ~IsFailureHook(h)

\* C7: the hook calls of a RequestMulti call are one per response envelope
\* the drainer has taken, in that order and with the conversion of that
\* envelope, made by the time the response is forwarded, and one more, with
\* a nil result and the error returned, exactly when the call failed.
C7_MultiHooks ==
    /\ SelectSeq(multiHooks, IsResponseHook)
           = [i \in 1..Len(drainer.taken) |-> ConvertResponse(drainer.taken[i])]
    /\ SelectSeq(multiHooks, IsFailureHook)
           = IF multi.pc = "failed"
             THEN <<[Result |-> NoResult, Err |-> multi.err]>>
             ELSE <<>>
    /\ drainer.pc = "send" =>
           /\ drainer.taken # <<>>
           /\ drainer.r[1] = ConvertResponse(drainer.taken[Len(drainer.taken)])

\* The drainer has taken two responses, a good one and then a bad one, the
\* hook was called with each, and the second is about to be forwarded.
C7_Witness ==
    /\ multi.pc = "returned"
    /\ Len(drainer.taken) = 2
    /\ Len(multiHooks) = 2
    /\ multiHooks[1].Err = NilError
    /\ multiHooks[2].Err # NilError
    /\ drainer.pc = "send"

\* C9: a closed client stays closed whatever is called on it, and once
\* Close was called the demultiplexer eventually closes both subscriptions
\* and exits.
C9_CloseStopsDemux ==
    /\ [][closed => closed']_vars
    /\ closed ~> (demux.pc = "exited" /\ subsOpen = {})

\* C8: a step in which the call finds its context done because the caller
\* cancelled it ends the call with the error Canceled, and a step in which
\* selectServer finds its context done by an outer cancellation alone (the
\* caller's or the deadline) elects no server.
C8_OuterCancelAborts ==
    [][/\ (ctx = "canceled" /\ NoInnerCancel /\ (SelectDone \/ AwaitDone)) =>
              (single'.pc = "deferred" /\ single'.err.code = "Canceled")
       /\ (OuterDone /\ NoInnerCancel /\ SelectDone) => single'.pc = "deferred"
      ]_vars

\* The call is in flight on a closed client whose demultiplexer has exited,
\* its deadline has passed and its sinks are empty: nothing was delivered
\* that it has not consumed, and nothing will be.
QuietAfterClose ==
    /\ closed
    /\ demux.pc = "exited"
    /\ ctx = "deadline"
    /\ single.pc \in {"select", "elected", "await"}
    /\ claimChan = <<>>
    /\ resChan[SingleId] = <<>>

\* C10 as stated: such a call fails with RequestTimedOut, whichever phase
\* it is in.
C10_TimedOutAfterClose ==
    [][(QuietAfterClose /\ single'.pc = "deferred") =>
           single'.err = ErrRequestTimedOut]_vars

\* C10 as amended: such a call fails with NoResponse when it was collecting
\* claims and had consumed none, with Unavailable "no servers available
\* (received N responses)" when it had consumed N > 0 claims and none
\* qualified, with Internal when it had chosen a server and publishing the
\* claim-response fails, and with RequestTimedOut when it was awaiting the
\* response; while it collects claims with a candidate it does not fail but
\* goes on to publish the claim-response.
C10_FailureAfterClose ==
    [][QuietAfterClose =>
           /\ single'.pc = "deferred" =>
                  single'.err =
                      CASE single.pc = "select" /\ sel.claims = 0 -> ErrNoResponse
                        [] single.pc = "select" /\ sel.claims > 0 ->
                               ErrNoServers(sel.claims)
                        [] single.pc = "elected" -> NewError("Internal", "publish")
                        [] single.pc = "await" -> ErrRequestTimedOut
           /\ (single.pc = "select" /\ sel.best # 0 /\ single'.pc # "select") =>
                  single'.pc = "elected"
           /\ (single.pc = "select" /\ sel.best = 0 /\ single'.pc # "select") =>
                  single'.pc = "deferred"
      ]_vars

\* A call that was collecting claims on a closed client and had consumed
\* one that did not qualify has failed at its deadline.
C10_Witness ==
    /\ closed
    /\ demux.pc = "exited"
    /\ ctx = "deadline"
    /\ single.pc = "deferred"
    /\ sel.claims = 1
    /\ single.err = ErrNoServers(1)

\* C11: when selectServer ends with none of the claims it consumed
\* qualifying, it fails with NoResponse if it consumed no claim and with
\* Unavailable "no servers available (received N responses)" if it consumed
\* N > 0 claims; when one of them qualified it does not fail but returns a
\* server.
C11_FailureByClaimCount ==
    [][(single.pc = "select" /\ single'.pc # "select") =>
           IF Qualifying(opts, sel.consumed') = {}
           THEN /\ single'.pc = "deferred"
                /\ single'.err =
                       IF Len(sel.consumed') = 0 THEN ErrNoResponse
                       ELSE ErrNoServers(Len(sel.consumed'))
           ELSE /\ single'.pc = "elected"
                /\ single'.err = NilError
                /\ single'.serverID # ""
      ]_vars

\* Two servers claimed with an affinity under the floor and the selection
\* failed with "received 2 responses".
C11_Witness ==
    /\ single.pc = "deferred"
    /\ opts.MinimumAffinity = MaxAffinity
    /\ Len(sel.consumed) = 2
    /\ \A i \in 1..2 : sel.consumed[i].Affinity = 1
    /\ sel.consumed[1].ServerId # sel.consumed[2].ServerId
    /\ single.err =
           NewError("Unavailable", "no servers available (received 2 responses)")

C13_AcceptFirstAvailable ==
    opts.AcceptFirstAvailable =>
        /\ sel.claims = Len(sel.consumed)
        /\ single.pc = "select" => Qualifying(opts, sel.consumed) = {}
        /\ single.pc = "elected" =>
               /\ Qualifying(opts, sel.consumed) = {Len(sel.consumed)}
               /\ single.serverID = sel.consumed[Len(sel.consumed)].ServerId

\* selectServer returned the server of the second claim, of affinity 1,
\* after one of affinity 0, with both timers configured and neither fired
\* and the context live; a claim of a larger affinity from the other server
\* was delivered to the claim sink afterwards.
C13_Witness ==
    /\ opts.AcceptFirstAvailable
    /\ opts.AffinityTimeout > 0
    /\ opts.ShortCircuitTimeout > 0
    /\ single.pc = "elected"
    /\ ctx = "live"
    /\ NoInnerCancel
    /\ Len(sel.consumed) = 2
    /\ sel.consumed[1].Affinity = 0
    /\ sel.consumed[2].Affinity = 1
    /\ single.serverID = sel.consumed[2].ServerId
    /\ claimChan # <<>>
    /\ Head(claimChan).Affinity > 1
    /\ Head(claimChan).ServerId # single.serverID

\* The errors selectServer fails with (no server here reports Unavailable).
IsSelectionFailure(e) == e.code = "Unavailable"

\* C14: the only claim-response ever published is published by the
\* RequestSingle call, once, after its request was published and its
\* selection chose a server; it carries the call's request-id and the
\* server-id of a claim for that request-id that selectServer consumed.  A
\* call whose request publish or whose selection failed has published none,
\* and no step of RequestMulti or of its drainer publishes one.
C14_OneClaimResponse ==
    /\ [](claimResponses # <<>> =>
              /\ Len(claimResponses) = 1
              /\ SingleId \in published
              /\ single.pc \in {"await", "deferred", "done"}
              /\ ~IsSelectionFailure(single.err))
    /\ [][claimResponses' # claimResponses =>
              /\ claimResponses = <<>>
              /\ single.pc = "elected"
              /\ claimResponses'[1].RequestId = SingleId
              /\ \E i \in 1..Len(sel.consumed) :
                     /\ sel.consumed[i].RequestId = SingleId
                     /\ sel.consumed[i].ServerId = claimResponses'[1].ServerId
              /\ UNCHANGED multiVars
      ]_vars

\* The unary call has elected the one server that claimed, while the
\* RequestMulti call is in flight with a response in its sink.
C14_Witness ==
    /\ Len(claimResponses) = 1
    /\ claimResponses[1].ServerId = "s2"
    /\ single.pc = "await"
    /\ multi.pc = "returned"
    /\ resChan[MultiId] # <<>>

\* C15: on the happy path, whatever the selection options, a call that
\* returns returns the reply of the server that claimed, with a nil error,
\* and its response hook has seen that result and a nil error.
C15_HappyPath ==
    single.pc = "done" =>
        /\ single.err = NilError
        /\ single.response = "reply"
        /\ singleHooks = <<[Result |-> "reply", Err |-> NilError]>>

\* The same for the calls made with a selection timeout or with
\* accept-first-available only: this much holds.
HappyPathWithWindow ==
    (opts.AffinityTimeout > 0 \/ opts.ShortCircuitTimeout > 0
        \/ opts.AcceptFirstAvailable) => C15_HappyPath

\* C16: a step of the demultiplexer (one that takes an envelope from a
\* subscription or completes a send) leaves both maps of the correlation
\* table as they are; the demultiplexer goes on to send an envelope only
\* when the table held a sink for its request-id at the lookup, and a step
\* that takes an envelope without one changes nothing else: no sink, no
\* call, no drainer.
C16_DemuxOnlyReads ==
    [][((demux' # demux \/ budget' # budget) /\ demux'.pc # "exited") =>
           /\ UNCHANGED tableVars
           /\ (budget'.claims # budget.claims /\ demux' # demux) =>
                  /\ demux'.pc = "sendClaim"
                  /\ demux'.held[1].RequestId \in claimRequests
           /\ (budget'.responses # budget.responses /\ demux' # demux) =>
                  /\ demux'.pc = "sendRes"
                  /\ demux'.held[1].RequestId \in responseChannels
           /\ budget' # budget =>
                  UNCHANGED <<chanVars, closeVars, subsOpen, pubVars,
                              singleVars, multiVars>>
      ]_vars

\* A claim and a response without a sink have been discarded while both
\* calls are in flight: nothing is held, nothing was delivered.
C16_Witness ==
    /\ budget.claims < MaxMixedClaims
    /\ budget.responses < MaxMixedResponses
    /\ demux = [pc |-> "select", held |-> <<>>]
    /\ single.pc = "select"
    /\ sel.consumed = <<>>
    /\ claimChan = <<>>
    /\ multi.pc = "returned"
    /\ drainer.pc = "loop"
    /\ drainer.taken = <<>>
    /\ \A i \in CallIds : resChan[i] = <<>>

\* The claims of the unary call that the demultiplexer has received from
\* the bus, oldest first: those selectServer has consumed, those in the
\* claim sink, and the one the demultiplexer is sending.
ClaimPipeline ==
    sel.consumed \o claimChan
        \o (IF demux.pc = "sendClaim" THEN demux.held ELSE <<>>)

\* The same for the responses of the fan-out call and its drainer.
ResponsePipeline ==
    drainer.taken \o resChan[MultiId]
        \o (IF demux.pc = "sendRes" /\ demux.held[1].RequestId = MultiId
            THEN demux.held ELSE <<>>)

\* What the drainer has converted and the caller has not received yet,
\* oldest first.
StreamPending == responseChannel.buf \o drainer.r

\* C17: while selectServer runs, a claim for the call's id joins the claims
\* received so far at their end when the demultiplexer receives it from the
\* bus, and no other step changes their order or their number, so that
\* selectServer consumes them in bus order; the same holds of the responses
\* of a RequestMulti call up to the drainer, and the stream holds the
\* conversions of the responses last taken, in the order taken.
C17_BusOrderKept ==
    /\ [][/\ (single.pc = "select" /\ single'.pc \in {"select", "elected"}) =>
                 IF budget'.claims # budget.claims /\ demux' # demux
                 THEN ClaimPipeline' = Append(ClaimPipeline, demux'.held[1])
                 ELSE ClaimPipeline' = ClaimPipeline
          /\ IF budget'.responses # budget.responses /\ demux' # demux
             THEN ResponsePipeline' = Append(ResponsePipeline, demux'.held[1])
             ELSE ResponsePipeline' = ResponsePipeline
         ]_vars
    /\ [](/\ Len(StreamPending) <= Len(drainer.taken)
          /\ \A i \in 1..Len(StreamPending) :
                 StreamPending[i] =
                     ConvertResponse(
                         drainer.taken[Len(drainer.taken) - Len(StreamPending) + i]))

\* selectServer has consumed two different claims and the drainer has taken
\* two different responses, the second of which it is about to forward
\* behind the first.
C17_Witness ==
    /\ Len(sel.consumed) = 2
    /\ sel.consumed[1] # sel.consumed[2]
    /\ Len(drainer.taken) = 2
    /\ drainer.taken[1] # drainer.taken[2]
    /\ drainer.pc = "send"
    /\ responseChannel.buf # <<>>

\* A step arms the short-circuit timer only once in a selection, when the
\* first claim becomes the best candidate, and the affinity timer only when
\* selectServer starts; a timer that fires changes nothing but the
\* selection context.
TimersArmedOnce ==
    /\ (sel'.scTimer = "armed" /\ sel.scTimer # "armed") =>
           /\ single.pc = "select"
           /\ sel.scTimer = "unset"
           /\ sel.best = 0
           /\ sel'.best > 0
    /\ (sel.scTimer = "fired" /\ single'.pc = "select") => sel'.scTimer = "fired"
    /\ (sel'.affTimer = "armed" /\ sel.affTimer # "armed") =>
           single.pc = "registered" /\ single'.pc = "select"
    /\ (sel.affTimer = "fired" /\ single'.pc = "select") => sel'.affTimer = "fired"
    /\ (sel'.affTimer # sel.affTimer \/ sel'.scTimer # sel.scTimer) =>
           \/ single'.pc # single.pc
           \/ /\ single' = single
              /\ sel'.serverID = sel.serverID
              /\ sel'.best = sel.best
              /\ sel'.claims = sel.claims
              /\ UNCHANGED <<claimChan, claimResponses>>
           \/ sel'.claims = sel.claims + 1 /\ sel'.scTimer = "armed"

\* A step in which selectServer consumes a claim the demultiplexer received
\* after a timer had called cancel neither makes its server the best
\* candidate nor returns it.
LateClaimIgnored ==
    (/\ single.pc = "select"
     /\ ~NoInnerCancel
     /\ sel.early = 0
     /\ Len(sel'.consumed) > Len(sel.consumed)) =>
        /\ single'.pc = "select"
        /\ sel'.serverID = sel.serverID
        /\ sel'.best = sel.best

\* C18: the short-circuit timer is armed at most once in a selection, at
\* the first claim that becomes the best candidate, the affinity timer at
\* most once, when the selection starts; a timer that fires only cancels
\* the loop; and a claim that arrives after a timer has cancelled the loop
\* is never selected.
C18_TimersOnlyCancel == [][TimersArmedOnce /\ LateClaimIgnored]_vars

\* C19: a call publishes its request only after its sinks were entered in
\* the table (they are in it at the publish, unless the drainer of a
\* RequestMulti call, started before the publish, has timed out already),
\* and they stay there while its driver is active (the RequestSingle call
\* has not returned, the drainer of the RequestMulti call has not exited),
\* so that the demultiplexer finds a sink for every claim and response it
\* receives for the request in that time; and the claim sink and the
\* response sink of the unary call are in the table both or neither.
C19_RegisteredBeforePublish ==
    /\ [](/\ (SingleId \in published /\ single.pc # "done") =>
                 SingleId \in claimRequests /\ SingleId \in responseChannels
          /\ (MultiId \in published /\ drainer.pc # "exited") =>
                 MultiId \in responseChannels
          /\ SingleId \in claimRequests <=> SingleId \in responseChannels)
    /\ [][/\ \A id \in published' \ published :
                 IF id = SingleId
                 THEN id \in claimRequests /\ id \in responseChannels
                 ELSE id \in responseChannels \/ drainer.pc = "exited"
          /\ \A claim \in ClaimEnvelopes :
                 (DemuxTakesClaim(claim) /\ single.pc # "done") =>
                     demux' = [pc |-> "sendClaim", held |-> <<claim>>]
          /\ \A res \in ResponseEnvelopes :
                 (/\ DemuxTakesResponse(res)
                  /\ IF res.RequestId = SingleId THEN single.pc # "done"
                     ELSE drainer.pc # "exited") =>
                     demux' = [pc |-> "sendRes", held |-> <<res>>]
         ]_vars

\* Both calls have published their request and are in flight; a claim has
\* reached the claim sink of the unary call and a response the response
\* sink of the other.
C19_Witness ==
    /\ published = CallIds
    /\ single.pc = "select"
    /\ claimChan # <<>>
    /\ multi.pc = "returned"
    /\ drainer.pc = "loop"
    /\ resChan[MultiId] # <<>>

\* C20: the response envelope a RequestSingle call takes from its response
\* sink, and converts into the result or the server-reported error it
\* returns, carries the server-id of the claim-response the call published.
C20_ResultFromElected ==
    [][(single.pc = "await" /\ resChan'[SingleId] # resChan[SingleId]
           /\ single'.pc = "deferred") =>
           /\ Len(claimResponses) = 1
           /\ Head(resChan[SingleId]).ServerId = claimResponses[1].ServerId
      ]_vars

=============================================================================
